---- MODULE Spec2Model ----
(***************************************************************************)
(* Model of libbt-mrvl/src/hardware_mrvl.c: the Marvell Bluetooth vendor   *)
(* library's firmware-config and SCO-config command pipelines.             *)
(*                                                                         *)
(* The library keeps no pipeline state of its own: a completion callback   *)
(* decides what to do from the opcode it parses out of the event buffer.   *)
(* The host stack (callback table: alloc, dealloc, xmit_cb, fwcfg_cb,      *)
(* scocfg_cb) is the environment; its answers (alloc returns a buffer or   *)
(* NULL, xmit_cb returns TRUE or FALSE, the opcode and status an event     *)
(* carries) are inputs of the actions.                                     *)
(***************************************************************************)
EXTENDS Integers, Sequences, FiniteSets, TLC

VARIABLES
    bt_vendor_cbacks,   \* the registered callback table, or NULL
    vnd_local_bd_addr,  \* the 6-byte device address
    write_bd_address,   \* the static 8-byte parameter template of write-BD-address
    pending,            \* commands the transport accepted, completion not yet delivered
    crashed,            \* the process aborted (failed assert / NULL dereference)
    runs,               \* history: one record per trigger that started a run
    recording,          \* history: whether the runs record their calls
    bld,                \* inputs and output of a stand-alone build_cmd_buf application
    dec,                \* inputs and outputs of a completion callback applied to two events
    mchar_fd,           \* descriptor of the character device, negative when not open
    userial             \* the BT_VND_OP_USERIAL_OPEN call of bt_vnd_mrvl_if_op in progress

vars == <<bt_vendor_cbacks, vnd_local_bd_addr, write_bd_address, pending, crashed,
          runs, recording, bld, dec, mchar_fd, userial>>

(***************************************************************************)
(* Bounds of the model                                                     *)
(***************************************************************************)
MaxRuns == 2        \* triggers that start a run
MaxHist == 5        \* sequencer calls the run histories record in total
MaxPayloadLen == 2  \* payload length of the stand-alone build_cmd_buf inputs

(***************************************************************************)
(* Program constants                                                       *)
(***************************************************************************)
HCI_CMD_MARVELL_WRITE_PCM_SETTINGS == 64519       \* 0xFC07
HCI_CMD_MARVELL_WRITE_PCM_SYNC_SETTINGS == 64552  \* 0xFC28
HCI_CMD_MARVELL_WRITE_PCM_LINK_SETTINGS == 64553  \* 0xFC29
HCI_CMD_MARVELL_SET_SCO_DATA_PATH == 64541        \* 0xFC1D
HCI_CMD_MARVELL_WRITE_BD_ADDRESS == 64546         \* 0xFC22

WRITE_PCM_SETTINGS_SIZE == 1
WRITE_PCM_SYNC_SETTINGS_SIZE == 3
WRITE_PCM_LINK_SETTINGS_SIZE == 2
SET_SCO_DATA_PATH_SIZE == 1
WRITE_BD_ADDRESS_SIZE == 8

HCI_CMD_PREAMBLE_SIZE == 3
HCI_EVT_CMD_CMPL_OPCODE == 3

NULL == "NULL"
CBACKS == "cbacks"      \* a callback table of the host stack
NULLP == <<>>           \* a NULL buffer pointer; <<b>> points to buffer b

uint8(x) == x % 256
uint16(x) == x % 65536

\* the static payload arrays
write_pcm_settings == <<2>>
write_pcm_sync_settings == <<3, 0, 3>>
write_pcm_link_settings == <<3, 0>>
set_sco_data_path == <<1>>
write_bd_address_init == <<254, 6, 0, 0, 0, 0, 0, 0>>

(***************************************************************************)
(* Inputs the environment draws from                                       *)
(***************************************************************************)
Addrs == { <<17, 34, 51, 68, 85, 102>>, <<161, 178, 195, 212, 229, 246>> }
ZeroAddr == <<0, 0, 0, 0, 0, 0>>
ScoOpcodes == { HCI_CMD_MARVELL_WRITE_PCM_SETTINGS,
                HCI_CMD_MARVELL_WRITE_PCM_SYNC_SETTINGS,
                HCI_CMD_MARVELL_WRITE_PCM_LINK_SETTINGS,
                HCI_CMD_MARVELL_SET_SCO_DATA_PATH }
\* opcodes a delivered event may carry: the five vendor opcodes and HCI reset (0x0C03)
EvtOpcodes == ScoOpcodes \cup { HCI_CMD_MARVELL_WRITE_BD_ADDRESS, 3075 }
Statuses == { 0, 1 }
\* xmit_cb answers only when a buffer was allocated for it to be called with
XmitAnswers(allocOK) == IF allocOK THEN BOOLEAN ELSE { FALSE }

(***************************************************************************)
(* Pure functions                                                          *)
(***************************************************************************)
\* faulty variant: high byte first
UINT16_TO_STREAM_big_endian(u16) == << uint8(u16 \div 256), uint8(u16) >>

\* UINT16_TO_STREAM: low byte first
UINT16_TO_STREAM(u16) == << uint8(u16), uint8(u16 \div 256) >>

\* STREAM_TO_UINT16 at 0-based offset off of byte sequence p
STREAM_TO_UINT16(p, off) == uint16(p[off + 1] + uint16(p[off + 2] * 256))

\* memcpy(dst, src, n): the first n bytes of src
memcpy(src, n) == [i \in 1..n |-> src[i]]

\* faulty variant: the address copied in its own order
populate_bd_addr_params_forward(template, addr) ==
    << template[1], template[2],
       addr[1], addr[2], addr[3], addr[4], addr[5], addr[6] >>

\* faulty variant: the template is filled in only while it still holds zeros
populate_bd_addr_params_once(template, addr) ==
    IF \A k \in 3..8 : template[k] = 0
    THEN << template[1], template[2],
            addr[6], addr[5], addr[4], addr[3], addr[2], addr[1] >>
    ELSE template

\* populate_bd_addr_params(params = template + 2, addr): the template after the call
populate_bd_addr_params(template, addr) ==
    << template[1], template[2],
       addr[6], addr[5], addr[4], addr[3], addr[2], addr[1] >>

\* bt_vendor_cbacks->alloc: a buffer, or NULL when the allocator fails
alloc(allocOK) == IF allocOK THEN <<"buf">> ELSE NULLP

\* build_cmd_buf: NULLP, or a pointer to the HC_BT_HDR it filled in
build_cmd_buf(cmd, pl_len, payload, cbacks, allocOK) ==
    LET cmd_len == uint16(HCI_CMD_PREAMBLE_SIZE + pl_len)
        p_buf == IF cbacks # NULL THEN alloc(allocOK) ELSE NULLP
    IN  IF p_buf = NULLP
        THEN NULLP
        ELSE << [ event |-> "MSG_STACK_TO_HC_HCI_CMD",
                  offset |-> 0,
                  layer_specific |-> 0,
                  len |-> cmd_len,
                  data |-> UINT16_TO_STREAM(cmd) \o <<pl_len>> \o memcpy(payload, pl_len) ] >>

\* the command-complete event buffer the transport hands to a completion callback
EventBuffer(op, st) ==
    [ event |-> "MSG_HC_TO_STACK_HCI_EVT",
      data |-> << 14, 4, 1, uint8(op), uint8(op \div 256), st >> ]

\* parse_evt_buf: opcode at offset 3, first return parameter after it
parse_evt_buf(p_evt_buf) ==
    [ cmd |-> STREAM_TO_UINT16(p_evt_buf.data, HCI_EVT_CMD_CMPL_OPCODE),
      cmd_ret_param |-> p_evt_buf.data[HCI_EVT_CMD_CMPL_OPCODE + 3] ]

(***************************************************************************)
(* What one sequencer call does: the commands it hands to xmit_cb (with    *)
(* xmit_cb's answer), the buffers it releases through dealloc, the result  *)
(* callbacks it invokes, and whether build_cmd_buf came back with NULL.    *)
(***************************************************************************)
Result(cb, res) == [cb |-> cb, res |-> res]
Xmit(cmd, p_buf, cb, ok) == [cmd |-> cmd, buf |-> p_buf[1], cb |-> cb, ok |-> ok]

\* faulty variant: the opcode is not looked at
fw_switch_any_opcode(evt_cmd) == "SUCCESS"

\* the switch of hw_mrvl_config_start_cb on the parsed opcode
fw_switch(evt_cmd) ==
    IF evt_cmd = HCI_CMD_MARVELL_WRITE_BD_ADDRESS THEN "SUCCESS" ELSE "FAIL"

\* faulty variant: the success case lacks its return and falls into the abort path
hw_mrvl_config_start_cb_body_no_return(cbacks, p_evt_buf) ==
    LET evt_params == parse_evt_buf(p_evt_buf)
        res == fw_switch(evt_params.cmd)
    IN  [ nobuf |-> FALSE,
          xmit |-> <<>>,
          freed |-> IF cbacks # NULL THEN <<"evt">> ELSE <<>>,
          results |-> IF cbacks # NULL
                      THEN IF res = "SUCCESS"
                           THEN << Result("fwcfg_cb", "SUCCESS"), Result("fwcfg_cb", "FAIL") >>
                           ELSE << Result("fwcfg_cb", "FAIL") >>
                      ELSE <<>> ]

\* faulty variant: a nonzero status byte turns the success into a failure
hw_mrvl_config_start_cb_body_checks_status(cbacks, p_evt_buf) ==
    LET evt_params == parse_evt_buf(p_evt_buf)
        res == IF evt_params.cmd_ret_param = 0 THEN fw_switch(evt_params.cmd) ELSE "FAIL"
    IN  [ nobuf |-> FALSE,
          xmit |-> <<>>,
          freed |-> IF cbacks # NULL THEN <<"evt">> ELSE <<>>,
          results |-> IF cbacks # NULL
                      THEN << Result("fwcfg_cb", res) >>
                      ELSE <<>> ]

\* faulty variant: on another opcode the command is sent again
hw_mrvl_config_start_cb_body_resends(cbacks, p_evt_buf) ==
    LET evt_params == parse_evt_buf(p_evt_buf)
        cmd == HCI_CMD_MARVELL_WRITE_BD_ADDRESS
        p_buf == build_cmd_buf(cmd, WRITE_BD_ADDRESS_SIZE, write_bd_address_init,
                               cbacks, TRUE)
    IN  IF cbacks # NULL /\ fw_switch(evt_params.cmd) = "FAIL"
        THEN [ nobuf |-> FALSE,
               xmit |-> << Xmit(cmd, p_buf, "hw_mrvl_config_start_cb", TRUE) >>,
               freed |-> <<"evt">>,
               results |-> <<>> ]
        ELSE [ nobuf |-> FALSE,
               xmit |-> <<>>,
               freed |-> IF cbacks # NULL THEN <<"evt">> ELSE <<>>,
               results |-> IF cbacks # NULL
                           THEN << Result("fwcfg_cb", "SUCCESS") >>
                           ELSE <<>> ]

\* hw_mrvl_config_start_cb: every step is guarded by if (bt_vendor_cbacks)
hw_mrvl_config_start_cb_body(cbacks, p_evt_buf) ==
    LET evt_params == parse_evt_buf(p_evt_buf)
    IN  [ nobuf |-> FALSE,
          xmit |-> <<>>,
          freed |-> IF cbacks # NULL THEN <<"evt">> ELSE <<>>,
          results |-> IF cbacks # NULL
                      THEN << Result("fwcfg_cb", fw_switch(evt_params.cmd)) >>
                      ELSE <<>> ]

\* faulty variant: the sync-settings case sends set-SCO-data-path, skipping a step
sco_switch_skips_link(evt_cmd) ==
    CASE evt_cmd = HCI_CMD_MARVELL_WRITE_PCM_SETTINGS ->
            [ act |-> "send", cmd |-> HCI_CMD_MARVELL_WRITE_PCM_SYNC_SETTINGS,
              pl_len |-> WRITE_PCM_SYNC_SETTINGS_SIZE, payload |-> write_pcm_sync_settings ]
      [] evt_cmd \in { HCI_CMD_MARVELL_WRITE_PCM_SYNC_SETTINGS,
                       HCI_CMD_MARVELL_WRITE_PCM_LINK_SETTINGS } ->
            [ act |-> "send", cmd |-> HCI_CMD_MARVELL_SET_SCO_DATA_PATH,
              pl_len |-> SET_SCO_DATA_PATH_SIZE, payload |-> set_sco_data_path ]
      [] evt_cmd = HCI_CMD_MARVELL_SET_SCO_DATA_PATH ->
            [ act |-> "success", cmd |-> 0, pl_len |-> 0, payload |-> <<>> ]
      [] OTHER ->
            [ act |-> "unexpected", cmd |-> 0, pl_len |-> 0, payload |-> <<>> ]

\* faulty variant: write-PCM-sync-settings is built with the link-settings size
sco_switch_sync_size(evt_cmd) ==
    CASE evt_cmd = HCI_CMD_MARVELL_WRITE_PCM_SETTINGS ->
            [ act |-> "send", cmd |-> HCI_CMD_MARVELL_WRITE_PCM_SYNC_SETTINGS,
              pl_len |-> WRITE_PCM_LINK_SETTINGS_SIZE, payload |-> write_pcm_sync_settings ]
      [] evt_cmd = HCI_CMD_MARVELL_WRITE_PCM_SYNC_SETTINGS ->
            [ act |-> "send", cmd |-> HCI_CMD_MARVELL_WRITE_PCM_LINK_SETTINGS,
              pl_len |-> WRITE_PCM_LINK_SETTINGS_SIZE, payload |-> write_pcm_link_settings ]
      [] evt_cmd = HCI_CMD_MARVELL_WRITE_PCM_LINK_SETTINGS ->
            [ act |-> "send", cmd |-> HCI_CMD_MARVELL_SET_SCO_DATA_PATH,
              pl_len |-> SET_SCO_DATA_PATH_SIZE, payload |-> set_sco_data_path ]
      [] evt_cmd = HCI_CMD_MARVELL_SET_SCO_DATA_PATH ->
            [ act |-> "success", cmd |-> 0, pl_len |-> 0, payload |-> <<>> ]
      [] OTHER ->
            [ act |-> "unexpected", cmd |-> 0, pl_len |-> 0, payload |-> <<>> ]

\* the switch of hw_mrvl_sco_config_cb on the parsed opcode
sco_switch(evt_cmd) ==
    CASE evt_cmd = HCI_CMD_MARVELL_WRITE_PCM_SETTINGS ->
            [ act |-> "send", cmd |-> HCI_CMD_MARVELL_WRITE_PCM_SYNC_SETTINGS,
              pl_len |-> WRITE_PCM_SYNC_SETTINGS_SIZE, payload |-> write_pcm_sync_settings ]
      [] evt_cmd = HCI_CMD_MARVELL_WRITE_PCM_SYNC_SETTINGS ->
            [ act |-> "send", cmd |-> HCI_CMD_MARVELL_WRITE_PCM_LINK_SETTINGS,
              pl_len |-> WRITE_PCM_LINK_SETTINGS_SIZE, payload |-> write_pcm_link_settings ]
      [] evt_cmd = HCI_CMD_MARVELL_WRITE_PCM_LINK_SETTINGS ->
            [ act |-> "send", cmd |-> HCI_CMD_MARVELL_SET_SCO_DATA_PATH,
              pl_len |-> SET_SCO_DATA_PATH_SIZE, payload |-> set_sco_data_path ]
      [] evt_cmd = HCI_CMD_MARVELL_SET_SCO_DATA_PATH ->
            [ act |-> "success", cmd |-> 0, pl_len |-> 0, payload |-> <<>> ]
      [] OTHER ->
            [ act |-> "unexpected", cmd |-> 0, pl_len |-> 0, payload |-> <<>> ]

\* faulty variant: a rejected command is not released
sco_cb_send_leaks(cmd, p_buf, xmitOK) ==
    IF p_buf # NULLP
    THEN IF xmitOK
         THEN [ xmit |-> << Xmit(cmd, p_buf, "hw_mrvl_sco_config_cb", TRUE) >>,
                freed |-> <<>>,
                results |-> <<>> ]
         ELSE [ xmit |-> << Xmit(cmd, p_buf, "hw_mrvl_sco_config_cb", FALSE) >>,
                freed |-> <<>>,
                results |-> << Result("scocfg_cb", "FAIL") >> ]
    ELSE [ xmit |-> <<>>, freed |-> <<>>,
           results |-> << Result("scocfg_cb", "FAIL") >> ]

\* the tail of hw_mrvl_sco_config_cb: hand the built command to xmit_cb, or
\* release it and report FAIL; with no command built, report FAIL
sco_cb_send(cmd, p_buf, xmitOK) ==
    IF p_buf # NULLP
    THEN IF xmitOK
         THEN [ xmit |-> << Xmit(cmd, p_buf, "hw_mrvl_sco_config_cb", TRUE) >>,
                freed |-> <<>>,
                results |-> <<>> ]
         ELSE [ xmit |-> << Xmit(cmd, p_buf, "hw_mrvl_sco_config_cb", FALSE) >>,
                freed |-> <<"cmd">>,
                results |-> << Result("scocfg_cb", "FAIL") >> ]
    ELSE [ xmit |-> <<>>, freed |-> <<>>,
           results |-> << Result("scocfg_cb", "FAIL") >> ]

\* hw_mrvl_sco_config_cb with a callback table registered (cbacks # NULL)
hw_mrvl_sco_config_cb_body(cbacks, p_evt_buf, allocOK, xmitOK) ==
    LET evt_params == parse_evt_buf(p_evt_buf)
        sw == sco_switch(evt_params.cmd)
        p_buf == IF sw.act = "send"
                 THEN build_cmd_buf(sw.cmd, sw.pl_len, sw.payload, cbacks, allocOK)
                 ELSE NULLP
        tail == sco_cb_send(sw.cmd, p_buf, xmitOK)
    IN  IF sw.act = "success"
        THEN [ nobuf |-> FALSE, xmit |-> <<>>, freed |-> <<"evt">>,
               results |-> << Result("scocfg_cb", "SUCCESS") >> ]
        ELSE [ nobuf |-> (sw.act = "send" /\ p_buf = NULLP),
               xmit |-> tail.xmit,
               freed |-> <<"evt">> \o tail.freed,
               results |-> tail.results ]

\* faulty variant: the command is sent with the SCO pipeline's completion callback
hw_mrvl_config_start_body_sco_cb(cbacks, params, allocOK, xmitOK) ==
    LET cmd == HCI_CMD_MARVELL_WRITE_BD_ADDRESS
        p_buf == build_cmd_buf(cmd, WRITE_BD_ADDRESS_SIZE, params, cbacks, allocOK)
    IN  IF p_buf # NULLP
        THEN IF xmitOK
             THEN [ nobuf |-> FALSE,
                    xmit |-> << Xmit(cmd, p_buf, "hw_mrvl_sco_config_cb", TRUE) >>,
                    freed |-> <<>>,
                    results |-> <<>> ]
             ELSE [ nobuf |-> FALSE,
                    xmit |-> << Xmit(cmd, p_buf, "hw_mrvl_sco_config_cb", FALSE) >>,
                    freed |-> <<"cmd">>,
                    results |-> << Result("fwcfg_cb", "FAIL") >> ]
        ELSE [ nobuf |-> TRUE, xmit |-> <<>>, freed |-> <<>>,
               results |-> << Result("fwcfg_cb", "FAIL") >> ]

\* hw_mrvl_config_start after populate_bd_addr_params, with a table registered
hw_mrvl_config_start_body(cbacks, params, allocOK, xmitOK) ==
    LET cmd == HCI_CMD_MARVELL_WRITE_BD_ADDRESS
        p_buf == build_cmd_buf(cmd, WRITE_BD_ADDRESS_SIZE, params, cbacks, allocOK)
    IN  IF p_buf # NULLP
        THEN IF xmitOK
             THEN [ nobuf |-> FALSE,
                    xmit |-> << Xmit(cmd, p_buf, "hw_mrvl_config_start_cb", TRUE) >>,
                    freed |-> <<>>,
                    results |-> <<>> ]
             ELSE [ nobuf |-> FALSE,
                    xmit |-> << Xmit(cmd, p_buf, "hw_mrvl_config_start_cb", FALSE) >>,
                    freed |-> <<"cmd">>,
                    results |-> << Result("fwcfg_cb", "FAIL") >> ]
        ELSE [ nobuf |-> TRUE, xmit |-> <<>>, freed |-> <<>>,
               results |-> << Result("fwcfg_cb", "FAIL") >> ]

\* faulty variant: a failed build returns without reporting
hw_mrvl_sco_config_body_silent(cbacks, allocOK, xmitOK) ==
    LET cmd == HCI_CMD_MARVELL_WRITE_PCM_SETTINGS
        p_buf == build_cmd_buf(cmd, WRITE_PCM_SETTINGS_SIZE, write_pcm_settings,
                               cbacks, allocOK)
    IN  IF p_buf # NULLP
        THEN IF xmitOK
             THEN [ nobuf |-> FALSE,
                    xmit |-> << Xmit(cmd, p_buf, "hw_mrvl_sco_config_cb", TRUE) >>,
                    freed |-> <<>>,
                    results |-> <<>> ]
             ELSE [ nobuf |-> FALSE,
                    xmit |-> << Xmit(cmd, p_buf, "hw_mrvl_sco_config_cb", FALSE) >>,
                    freed |-> <<"cmd">>,
                    results |-> << Result("scocfg_cb", "FAIL") >> ]
        ELSE [ nobuf |-> TRUE, xmit |-> <<>>, freed |-> <<>>, results |-> <<>> ]

\* hw_mrvl_sco_config with a table registered
hw_mrvl_sco_config_body(cbacks, allocOK, xmitOK) ==
    LET cmd == HCI_CMD_MARVELL_WRITE_PCM_SETTINGS
        p_buf == build_cmd_buf(cmd, WRITE_PCM_SETTINGS_SIZE, write_pcm_settings,
                               cbacks, allocOK)
    IN  IF p_buf # NULLP
        THEN IF xmitOK
             THEN [ nobuf |-> FALSE,
                    xmit |-> << Xmit(cmd, p_buf, "hw_mrvl_sco_config_cb", TRUE) >>,
                    freed |-> <<>>,
                    results |-> <<>> ]
             ELSE [ nobuf |-> FALSE,
                    xmit |-> << Xmit(cmd, p_buf, "hw_mrvl_sco_config_cb", FALSE) >>,
                    freed |-> <<"cmd">>,
                    results |-> << Result("scocfg_cb", "FAIL") >> ]
        ELSE [ nobuf |-> TRUE, xmit |-> <<>>, freed |-> <<>>,
               results |-> << Result("scocfg_cb", "FAIL") >> ]

(***************************************************************************)
(* History.  A run is what one trigger started; it records, in order, the  *)
(* sequencer calls made on its behalf (the trigger, then each completion   *)
(* callback), and the results reported for it.  While recording, a call is *)
(* possible only if the histories have room for it; when not recording,    *)
(* only the results and the no-table flag of a run are kept.               *)
(***************************************************************************)
CallRec(op, expect, evt, addr, eff, crash) ==
    [ op |-> op,            \* the function called
      expect |-> expect,    \* opcode of the command this call completes (0: a trigger)
      evt |-> evt,          \* opcode parsed from the event buffer (0: a trigger)
      addr |-> addr,        \* vnd_local_bd_addr at the call (hw_mrvl_config_start only)
      tbl |-> bt_vendor_cbacks,   \* the callback table at the call
      nobuf |-> eff.nobuf, xmit |-> eff.xmit, freed |-> eff.freed,
      results |-> eff.results,
      crash |-> crash ]     \* the call aborted the process

NoEffect == [nobuf |-> FALSE, xmit |-> <<>>, freed |-> <<>>, results |-> <<>>]

RECURSIVE HistUsedUpTo(_)
HistUsedUpTo(n) == IF n = 0 THEN 0 ELSE Len(runs[n].calls) + HistUsedUpTo(n - 1)
HistUsed == HistUsedUpTo(Len(runs))
Room == recording => HistUsed < MaxHist

NewRun(pipe) == [pipe |-> pipe, calls |-> <<>>, results |-> <<>>, notable |-> FALSE]

Extend(run, c, tableOK) ==
    [run EXCEPT !.calls = IF recording THEN Append(@, c) ELSE @,
                !.results = @ \o c.results,
                !.notable = @ \/ ~tableOK]

Accepted(eff, r) ==
    { [run |-> r, cmd |-> eff.xmit[i].cmd, buf |-> eff.xmit[i].buf, cb |-> eff.xmit[i].cb]
        : i \in { j \in 1..Len(eff.xmit) : eff.xmit[j].ok } }

BldIdle == [cmd |-> 0, payload |-> <<>>, cbacks |-> NULL, allocOK |-> FALSE,
            done |-> FALSE, out |-> NULLP]

DecIdle == [cb |-> "none", op |-> 0, st1 |-> 0, st2 |-> 0, allocOK |-> FALSE,
            xmitOK |-> FALSE, done |-> FALSE, out1 |-> NoEffect, out2 |-> NoEffect]

UserialIdle == [pc |-> "idle", retry |-> 0, ret |-> 0, param0 |-> 0,
                attempts |-> 0, fails |-> 0]

(***************************************************************************)
(* Initial state: the globals as the loader leaves them                    *)
(***************************************************************************)
Globals ==
    /\ bt_vendor_cbacks = NULL
    /\ vnd_local_bd_addr = ZeroAddr
    /\ write_bd_address = write_bd_address_init
    /\ pending = {}
    /\ crashed = FALSE
    /\ runs = <<>>
    /\ mchar_fd = -1
    /\ userial = UserialIdle

Init ==
    /\ Globals
    /\ recording = TRUE
    /\ bld = BldIdle
    /\ dec = DecIdle

(***************************************************************************)
(* Operations                                                              *)
(***************************************************************************)
\* bt_vnd_mrvl_if_init(p_cb, local_bdaddr): p_cb is stored unchecked
bt_vnd_mrvl_if_init(p_cb, local_bdaddr) ==
    /\ ~crashed
    /\ bt_vendor_cbacks' = p_cb
    /\ vnd_local_bd_addr' = memcpy(local_bdaddr, 6)
    /\ UNCHANGED <<write_bd_address, pending, crashed, runs, recording, bld, dec, mchar_fd, userial>>

\* hw_mrvl_config_start (BT_VND_OP_FW_CFG)
hw_mrvl_config_start(allocOK, xmitOK) ==
    /\ ~crashed
    /\ Len(runs) < MaxRuns /\ Room
    /\ bt_vendor_cbacks # NULL
    /\ LET r == Len(runs) + 1
           params == populate_bd_addr_params(write_bd_address, vnd_local_bd_addr)
           eff == hw_mrvl_config_start_body(bt_vendor_cbacks, params, allocOK, xmitOK)
       IN  /\ write_bd_address' = params
           /\ pending' = pending \cup Accepted(eff, r)
           /\ runs' = Append(runs,
                  Extend(NewRun("fw"),
                         CallRec("hw_mrvl_config_start", 0, 0, vnd_local_bd_addr, eff, FALSE),
                         TRUE))
    /\ UNCHANGED <<bt_vendor_cbacks, vnd_local_bd_addr, crashed, recording, bld, dec, mchar_fd, userial>>

\* hw_mrvl_sco_config (BT_VND_OP_SCO_CFG)
hw_mrvl_sco_config(allocOK, xmitOK) ==
    /\ ~crashed
    /\ Len(runs) < MaxRuns /\ Room
    /\ bt_vendor_cbacks # NULL
    /\ LET r == Len(runs) + 1
           eff == hw_mrvl_sco_config_body(bt_vendor_cbacks, allocOK, xmitOK)
       IN  /\ pending' = pending \cup Accepted(eff, r)
           /\ runs' = Append(runs,
                  Extend(NewRun("sco"),
                         CallRec("hw_mrvl_sco_config", 0, 0, <<>>, eff, FALSE),
                         TRUE))
    /\ UNCHANGED <<bt_vendor_cbacks, vnd_local_bd_addr, write_bd_address, crashed,
                   recording, bld, dec, mchar_fd, userial>>

\* a trigger with no table registered: assert(bt_vendor_cbacks) aborts; built
\* without assertions, hw_mrvl_config_start first populates the template, then
\* either trigger dereferences the NULL table.  No run starts.
TriggerWithoutTable(op) ==
    /\ ~crashed
    /\ Len(runs) < MaxRuns
    /\ bt_vendor_cbacks = NULL
    /\ crashed' = TRUE
    /\ write_bd_address' \in
          IF op = "hw_mrvl_config_start"
          THEN { write_bd_address,
                 populate_bd_addr_params(write_bd_address, vnd_local_bd_addr) }
          ELSE { write_bd_address }
    /\ UNCHANGED <<bt_vendor_cbacks, vnd_local_bd_addr, pending, runs, recording, bld, dec, mchar_fd, userial>>

\* the transport delivers the completion of p to hw_mrvl_config_start_cb
hw_mrvl_config_start_cb(p, op, st) ==
    /\ ~crashed
    /\ p \in pending
    /\ p.cb = "hw_mrvl_config_start_cb"
    /\ Room
    /\ LET p_evt_buf == EventBuffer(op, st)
           evt_params == parse_evt_buf(p_evt_buf)
           eff == hw_mrvl_config_start_cb_body(bt_vendor_cbacks, p_evt_buf)
       IN  /\ pending' = pending \ {p}
           /\ runs' = [runs EXCEPT ![p.run] =
                  Extend(@, CallRec("hw_mrvl_config_start_cb", p.cmd, evt_params.cmd,
                                    <<>>, eff, FALSE),
                         bt_vendor_cbacks # NULL)]
    /\ UNCHANGED <<bt_vendor_cbacks, vnd_local_bd_addr, write_bd_address, crashed,
                   recording, bld, dec, mchar_fd, userial>>

\* the transport delivers the completion of p to hw_mrvl_sco_config_cb
hw_mrvl_sco_config_cb(p, op, st, allocOK, xmitOK) ==
    /\ ~crashed
    /\ p \in pending
    /\ p.cb = "hw_mrvl_sco_config_cb"
    /\ Room
    /\ bt_vendor_cbacks # NULL
    /\ LET p_evt_buf == EventBuffer(op, st)
           evt_params == parse_evt_buf(p_evt_buf)
           eff == hw_mrvl_sco_config_cb_body(bt_vendor_cbacks, p_evt_buf, allocOK, xmitOK)
       IN  /\ pending' = (pending \ {p}) \cup Accepted(eff, p.run)
           /\ runs' = [runs EXCEPT ![p.run] =
                  Extend(@, CallRec("hw_mrvl_sco_config_cb", p.cmd, evt_params.cmd,
                                    <<>>, eff, FALSE),
                         TRUE)]
    /\ UNCHANGED <<bt_vendor_cbacks, vnd_local_bd_addr, write_bd_address, crashed,
                   recording, bld, dec, mchar_fd, userial>>

\* hw_mrvl_sco_config_cb with no table registered: assert(bt_vendor_cbacks &&
\* p_mem) aborts; built without assertions, bt_vendor_cbacks->dealloc
\* dereferences the NULL table.  Either way nothing is released or reported.
hw_mrvl_sco_config_cb_no_table(p, op, st) ==
    /\ ~crashed
    /\ p \in pending
    /\ p.cb = "hw_mrvl_sco_config_cb"
    /\ Room
    /\ bt_vendor_cbacks = NULL
    /\ crashed' = TRUE
    /\ pending' = pending \ {p}
    /\ runs' = [runs EXCEPT ![p.run] =
           Extend(@, CallRec("hw_mrvl_sco_config_cb", p.cmd,
                             parse_evt_buf(EventBuffer(op, st)).cmd, <<>>, NoEffect, TRUE),
                  FALSE)]
    /\ UNCHANGED <<bt_vendor_cbacks, vnd_local_bd_addr, write_bd_address, recording, bld, dec, mchar_fd, userial>>

(***************************************************************************)
(* Next: the library driven by a host stack that registers its callback    *)
(* table whenever it initializes the library.  NextAnyTable: the host may  *)
(* also initialize it with a NULL table, at any time.                      *)
(***************************************************************************)
Next ==
    \/ \E a \in Addrs : bt_vnd_mrvl_if_init(CBACKS, a)
    \/ \E allocOK \in BOOLEAN : \E xmitOK \in XmitAnswers(allocOK) :
          hw_mrvl_config_start(allocOK, xmitOK)
    \/ \E allocOK \in BOOLEAN : \E xmitOK \in XmitAnswers(allocOK) :
          hw_mrvl_sco_config(allocOK, xmitOK)
    \/ \E op \in {"hw_mrvl_config_start", "hw_mrvl_sco_config"} : TriggerWithoutTable(op)
    \/ \E p \in pending, op \in EvtOpcodes, st \in Statuses :
          hw_mrvl_config_start_cb(p, op, st)
    \/ \E p \in pending, op \in EvtOpcodes, st \in Statuses :
          \E allocOK \in BOOLEAN : \E xmitOK \in XmitAnswers(allocOK) :
              hw_mrvl_sco_config_cb(p, op, st, allocOK, xmitOK)

Spec == Init /\ [][Next]_vars

NextAnyTable ==
    \/ Next
    \/ \E a \in Addrs : bt_vnd_mrvl_if_init(NULL, a)
    \/ \E p \in pending, op \in EvtOpcodes, st \in Statuses :
          hw_mrvl_sco_config_cb_no_table(p, op, st)

SpecAnyTable == Init /\ [][NextAnyTable]_vars

(***************************************************************************)
(* SeqNext: a host that triggers a pipeline only when no run is in         *)
(* progress, so that every run has ended before the next one starts.       *)
(***************************************************************************)
SeqNext ==
    \/ \E a \in Addrs : bt_vnd_mrvl_if_init(CBACKS, a)
    \/ \E allocOK \in BOOLEAN : \E xmitOK \in XmitAnswers(allocOK) :
          pending = {} /\ hw_mrvl_config_start(allocOK, xmitOK)
    \/ \E allocOK \in BOOLEAN : \E xmitOK \in XmitAnswers(allocOK) :
          pending = {} /\ hw_mrvl_sco_config(allocOK, xmitOK)
    \/ \E op \in {"hw_mrvl_config_start", "hw_mrvl_sco_config"} :
          pending = {} /\ TriggerWithoutTable(op)
    \/ \E p \in pending, op \in EvtOpcodes, st \in Statuses :
          hw_mrvl_config_start_cb(p, op, st)
    \/ \E p \in pending, op \in EvtOpcodes, st \in Statuses :
          \E allocOK \in BOOLEAN : \E xmitOK \in XmitAnswers(allocOK) :
              hw_mrvl_sco_config_cb(p, op, st, allocOK, xmitOK)

SeqSpec == Init /\ [][SeqNext]_vars

(***************************************************************************)
(* Delivery under fairness: the transport invokes the completion callback  *)
(* of every command it accepted.  The calls are not recorded, so the state *)
(* is the program's own plus each run's results.                           *)
(***************************************************************************)
Deliver(r) ==
    \E p \in pending, op \in EvtOpcodes, st \in Statuses :
        /\ p.run = r
        /\ \/ hw_mrvl_config_start_cb(p, op, st)
           \/ \E allocOK \in BOOLEAN : \E xmitOK \in XmitAnswers(allocOK) :
                 hw_mrvl_sco_config_cb(p, op, st, allocOK, xmitOK)

LiveInit ==
    /\ Globals
    /\ recording = FALSE
    /\ bld = BldIdle
    /\ dec = DecIdle

LiveSpec == LiveInit /\ [][Next]_vars /\ \A r \in 1..MaxRuns : WF_vars(Deliver(r))

(***************************************************************************)
(* build_cmd_buf applied on its own to inputs drawn from bounded sets      *)
(***************************************************************************)
BldOpcodes == { 0, 255, 256, 3075, 64519, 65535 }
BldBytes == { 0, 127, 255 }
BldPayloads == UNION { [1..n -> BldBytes] : n \in 0..MaxPayloadLen }

BuildInit ==
    /\ Globals
    /\ recording = TRUE
    /\ bld \in [ cmd : BldOpcodes, payload : BldPayloads, cbacks : {NULL, CBACKS},
                 allocOK : BOOLEAN, done : {FALSE}, out : {NULLP} ]
    /\ dec = DecIdle

ApplyBuild ==
    /\ ~bld.done
    /\ bld' = [bld EXCEPT !.done = TRUE,
                          !.out = build_cmd_buf(bld.cmd, Len(bld.payload), bld.payload,
                                                bld.cbacks, bld.allocOK)]
    /\ UNCHANGED <<bt_vendor_cbacks, vnd_local_bd_addr, write_bd_address, pending,
                   crashed, runs, recording, dec, mchar_fd, userial>>

BuildNext == ApplyBuild

BuildSpec == BuildInit /\ [][BuildNext]_vars

(***************************************************************************)
(* A completion callback applied on its own, with a table registered, to   *)
(* two events that carry the same opcode and status bytes of their own     *)
(***************************************************************************)
DecStatuses == { 0, 1, 255 }

DecideInit ==
    /\ Globals
    /\ recording = TRUE
    /\ bld = BldIdle
    /\ \E allocOK \in BOOLEAN :
          dec \in [ cb : {"hw_mrvl_config_start_cb", "hw_mrvl_sco_config_cb"},
                    op : EvtOpcodes, st1 : DecStatuses, st2 : DecStatuses,
                    allocOK : {allocOK}, xmitOK : XmitAnswers(allocOK),
                    done : {FALSE}, out1 : {NoEffect}, out2 : {NoEffect} ]

DecideOn(st) ==
    IF dec.cb = "hw_mrvl_config_start_cb"
    THEN hw_mrvl_config_start_cb_body(CBACKS, EventBuffer(dec.op, st))
    ELSE hw_mrvl_sco_config_cb_body(CBACKS, EventBuffer(dec.op, st),
                                    dec.allocOK, dec.xmitOK)

ApplyDecide ==
    /\ ~dec.done
    /\ dec' = [dec EXCEPT !.done = TRUE, !.out1 = DecideOn(dec.st1),
                          !.out2 = DecideOn(dec.st2)]
    /\ UNCHANGED <<bt_vendor_cbacks, vnd_local_bd_addr, write_bd_address, pending,
                   crashed, runs, recording, bld, mchar_fd, userial>>

DecideNext == ApplyDecide

DecideSpec == DecideInit /\ [][DecideNext]_vars

(***************************************************************************)
(* bt_vnd_mrvl_if_op(BT_VND_OP_USERIAL_OPEN, param): the device is opened  *)
(* in a loop that gives up when the retry counter reaches zero.  open()    *)
(* returns a descriptor or -1; param0 is element 0 of the int array param. *)
(***************************************************************************)
retry_init == 20
OpenResults == { -1, 0, 3, 64 }
ParamInit == { -5, 5 }

OpenInit ==
    /\ Globals
    /\ recording = TRUE
    /\ bld = BldIdle
    /\ dec = DecIdle

\* faulty variant: the loop ends only once the counter is below zero
retry_exhausted_below_zero(retry) == retry < 0

\* if (!retry) break;
retry_exhausted(retry) == retry = 0

\* entry of the call: int ret = 0; int retry = 20;
userial_open_enter(p0) ==
    /\ userial.pc \in {"idle", "returned"}
    /\ userial' = [pc |-> "loop", retry |-> retry_init, ret |-> 0, param0 |-> p0,
                   attempts |-> 0, fails |-> 0]
    /\ UNCHANGED <<bt_vendor_cbacks, vnd_local_bd_addr, write_bd_address, pending,
                   crashed, runs, recording, bld, dec, mchar_fd>>

\* one iteration of the do-while loop; fd is what open() returns
userial_open_attempt(fd) ==
    /\ userial.pc = "loop"
    /\ mchar_fd' = fd
    /\ userial' =
          IF fd < 0
          THEN [userial EXCEPT !.attempts = @ + 1, !.fails = @ + 1,
                               !.retry = @ - 1,
                               !.pc = IF retry_exhausted(userial.retry - 1)
                                      THEN "after" ELSE "loop"]
          ELSE [userial EXCEPT !.attempts = @ + 1, !.pc = "after"]
    /\ UNCHANGED <<bt_vendor_cbacks, vnd_local_bd_addr, write_bd_address, pending,
                   crashed, runs, recording, bld, dec>>

\* after the loop: ret and param[0] are set, and the call returns ret
userial_open_return ==
    /\ userial.pc = "after"
    /\ userial' = [userial EXCEPT !.ret = IF mchar_fd < 0 THEN -1 ELSE 1,
                                  !.param0 = mchar_fd,
                                  !.pc = "returned"]
    /\ UNCHANGED <<bt_vendor_cbacks, vnd_local_bd_addr, write_bd_address, pending,
                   crashed, runs, recording, bld, dec, mchar_fd>>

OpenNext ==
    \/ \E p0 \in ParamInit : userial_open_enter(p0)
    \/ \E fd \in OpenResults : userial_open_attempt(fd)
    \/ userial_open_return

OpenSpec == OpenInit /\ [][OpenNext]_vars

(***************************************************************************)
(* Properties                                                              *)
(***************************************************************************)
RunIds == 1..Len(runs)
CallIds(r) == 1..Len(runs[r].calls)
CallAt(r, i) == runs[r].calls[i]
Count(x, seq) == Cardinality({ j \in 1..Len(seq) : seq[j] = x })
PendingOf(r) == { p \in pending : p.run = r }
ResultCb(pipe) == IF pipe = "fw" THEN "fwcfg_cb" ELSE "scocfg_cb"

ScoOrder == << HCI_CMD_MARVELL_WRITE_PCM_SETTINGS,
               HCI_CMD_MARVELL_WRITE_PCM_SYNC_SETTINGS,
               HCI_CMD_MARVELL_WRITE_PCM_LINK_SETTINGS,
               HCI_CMD_MARVELL_SET_SCO_DATA_PATH >>

\* C1: whenever hw_mrvl_sco_config_cb (table registered) receives an event
\* whose opcode is not the opcode of the command it completes, the call
\* invokes scocfg_cb(FAIL) exactly once, sends nothing, and is the last call
\* of its run.
C1_UnexpectedOpcodeFails ==
    \A r \in RunIds : \A i \in CallIds(r) :
        LET c == CallAt(r, i)
        IN  (c.op = "hw_mrvl_sco_config_cb" /\ ~c.crash /\ c.evt # c.expect)
            => /\ c.results = << Result("scocfg_cb", "FAIL") >>
               /\ c.xmit = <<>>
               /\ i = Len(runs[r].calls)
               /\ PendingOf(r) = {}

\* C2: an SCO run whose every build and send succeeded and whose four
\* completion events carried 0xFC07, 0xFC28, 0xFC29, 0xFC1D in this order sent
\* exactly those four commands in that order, one per call, and then reported
\* SUCCESS exactly once, in its last call, and never FAIL.
C2_Premise(r) ==
    /\ runs[r].pipe = "sco"
    /\ Len(runs[r].calls) = 5
    /\ \A i \in 1..4 : CallAt(r, i + 1).evt = ScoOrder[i]
    /\ \A i \in CallIds(r) :
          /\ ~CallAt(r, i).nobuf
          /\ ~CallAt(r, i).crash
          /\ \A j \in 1..Len(CallAt(r, i).xmit) : CallAt(r, i).xmit[j].ok

C2_Outcome(r) ==
    /\ \A i \in 1..4 :
          /\ Len(CallAt(r, i).xmit) = 1
          /\ CallAt(r, i).xmit[1].cmd = ScoOrder[i]
          /\ CallAt(r, i).results = <<>>
    /\ CallAt(r, 5).xmit = <<>>
    /\ CallAt(r, 5).results = << Result("scocfg_cb", "SUCCESS") >>
    /\ runs[r].results = << Result("scocfg_cb", "SUCCESS") >>
    /\ PendingOf(r) = {}

C2_OrderedRunSucceeds == \A r \in RunIds : C2_Premise(r) => C2_Outcome(r)

C2_Witness == \E r \in RunIds : C2_Premise(r) /\ C2_Outcome(r)

\* C3: whenever hw_mrvl_config_start_cb runs with a table registered, it
\* invokes fwcfg_cb exactly once, with SUCCESS if the event's opcode is 0xFC22
\* and with FAIL for every other opcode, and hands no command to the transport.
C3_FwCallbackResult ==
    \A r \in RunIds : \A i \in CallIds(r) :
        LET c == CallAt(r, i)
        IN  (c.op = "hw_mrvl_config_start_cb" /\ c.tbl # NULL)
            => /\ c.results =
                    << Result("fwcfg_cb",
                              IF c.evt = HCI_CMD_MARVELL_WRITE_BD_ADDRESS
                              THEN "SUCCESS" ELSE "FAIL") >>
               /\ c.xmit = <<>>
               /\ ~c.nobuf

C3_Witness ==
    \E r1 \in RunIds, r2 \in RunIds :
        /\ Len(runs[r1].calls) = 2 /\ Len(runs[r2].calls) = 2
        /\ CallAt(r1, 2).op = "hw_mrvl_config_start_cb"
        /\ CallAt(r1, 2).evt = HCI_CMD_MARVELL_WRITE_BD_ADDRESS
        /\ CallAt(r1, 2).results = << Result("fwcfg_cb", "SUCCESS") >>
        /\ CallAt(r2, 2).op = "hw_mrvl_config_start_cb"
        /\ CallAt(r2, 2).evt = HCI_CMD_MARVELL_SET_SCO_DATA_PATH
        /\ CallAt(r2, 2).results = << Result("fwcfg_cb", "FAIL") >>

\* C4: whenever xmit_cb returns false in a call (a trigger or an SCO
\* continuation), that call releases the command buffer exactly once, invokes
\* the pipeline's result callback with FAIL exactly once, is the last call of
\* its run, and leaves the run with no command outstanding.
C4_RejectedSendFails ==
    \A r \in RunIds : \A i \in CallIds(r) :
        LET c == CallAt(r, i)
        IN  (\E j \in 1..Len(c.xmit) : ~c.xmit[j].ok)
            => /\ Len(c.xmit) = 1
               /\ Count("cmd", c.freed) = 1
               /\ c.results = << Result(ResultCb(runs[r].pipe), "FAIL") >>
               /\ i = Len(runs[r].calls)
               /\ PendingOf(r) = {}

C4_Witness ==
    \E r1 \in RunIds, r2 \in RunIds :
        /\ runs[r1].pipe = "fw" /\ Len(runs[r1].calls) = 1
        /\ Len(CallAt(r1, 1).xmit) = 1 /\ ~CallAt(r1, 1).xmit[1].ok
        /\ runs[r2].pipe = "sco" /\ Len(runs[r2].calls) = 3
        /\ Len(CallAt(r2, 3).xmit) = 1 /\ ~CallAt(r2, 3).xmit[1].ok
        /\ CallAt(r2, 3).freed = <<"evt", "cmd">>

\* C5: every completion callback that returns has released its event buffer
\* exactly once, whatever the callback table was when it ran.
C5_EventBufferReleasedOnce ==
    \A r \in RunIds : \A i \in CallIds(r) :
        LET c == CallAt(r, i)
        IN  (c.op \in {"hw_mrvl_config_start_cb", "hw_mrvl_sco_config_cb"} /\ ~c.crash)
            => Count("evt", c.freed) = 1

\* C6: a run that has ended (no command outstanding, process alive), and whose
\* callbacks all ran with a table registered, has had its pipeline's result
\* callback invoked exactly once; and no run ever has it invoked twice or has
\* the other pipeline's callback invoked.
Ended(r) == PendingOf(r) = {} /\ ~crashed

C6_ResultExactlyOnce ==
    \A r \in RunIds :
        /\ Len(runs[r].results) <= 1
        /\ \A j \in 1..Len(runs[r].results) :
              runs[r].results[j].cb = ResultCb(runs[r].pipe)
        /\ (Ended(r) /\ ~runs[r].notable) => Len(runs[r].results) = 1

C6_Witness ==
    \E r1 \in RunIds, r2 \in RunIds :
        /\ Ended(r1) /\ Ended(r2)
        /\ runs[r1].pipe = "fw" /\ Len(runs[r1].calls) = 2
        /\ runs[r1].results = << Result("fwcfg_cb", "SUCCESS") >>
        /\ runs[r2].pipe = "sco" /\ Len(runs[r2].calls) = 2
        /\ runs[r2].results = << Result("scocfg_cb", "FAIL") >>

\* C7: under fair delivery, every run that started eventually has a result
\* reported (or the process aborted, or one of the run's callbacks ran with no
\* table registered, so that there was no result callback to invoke).
C7_EveryRunReports ==
    \A r \in 1..MaxRuns :
        (Len(runs) >= r)
            ~> (Len(runs) >= r
                /\ (Len(runs[r].results) > 0 \/ runs[r].notable \/ crashed))

\* C8: each pipeline has at most one command outstanding.
Outstanding(cb) == { p \in pending : p.cb = cb }

C8_OneOutstandingPerPipeline ==
    /\ Cardinality(Outstanding("hw_mrvl_config_start_cb")) <= 1
    /\ Cardinality(Outstanding("hw_mrvl_sco_config_cb")) <= 1

\* C9: every command hw_mrvl_config_start hands to the transport is
\* write-BD-address with the 8-byte payload 0xFE, 0x06, A[5], A[4], A[3], A[2],
\* A[1], A[0], where A is the device address at the time of the call.
BdPayload(a) == << 254, 6, a[6], a[5], a[4], a[3], a[2], a[1] >>

C9_BdAddressPayload ==
    \A r \in RunIds : \A i \in CallIds(r) :
        LET c == CallAt(r, i)
        IN  c.op = "hw_mrvl_config_start"
            => \A j \in 1..Len(c.xmit) :
                  /\ c.xmit[j].cmd = HCI_CMD_MARVELL_WRITE_BD_ADDRESS
                  /\ c.xmit[j].buf.data[3] = 8
                  /\ Len(c.xmit[j].buf.data) = 11
                  /\ SubSeq(c.xmit[j].buf.data, 4, 11) = BdPayload(c.addr)

\* two firmware runs, the address re-initialized to a different value in between
C9_Witness ==
    \E r1 \in RunIds, r2 \in RunIds :
        /\ r1 < r2
        /\ CallAt(r1, 1).op = "hw_mrvl_config_start" /\ Len(CallAt(r1, 1).xmit) = 1
        /\ CallAt(r2, 1).op = "hw_mrvl_config_start" /\ Len(CallAt(r2, 1).xmit) = 1
        /\ CallAt(r1, 1).addr # CallAt(r2, 1).addr
        /\ SubSeq(CallAt(r2, 1).xmit[1].buf.data, 4, 11) = BdPayload(CallAt(r2, 1).addr)

\* C10: build_cmd_buf(cmd, n, payload) returns, when a table is registered and
\* its allocator returns a buffer, a command of length n + 3 whose bytes are
\* cmd mod 256, cmd div 256, n and then the payload; it returns NULL when no
\* table is registered or the allocator returns NULL; nothing is sent.
C10_BuildCmdBuf ==
    bld.done =>
        /\ pending = {}
        /\ IF bld.cbacks # NULL /\ bld.allocOK
           THEN /\ Len(bld.out) = 1
                /\ bld.out[1].len = Len(bld.payload) + 3
                /\ bld.out[1].data =
                      << bld.cmd % 256, bld.cmd \div 256, Len(bld.payload) >>
                      \o bld.payload
           ELSE bld.out = NULLP

C10_Witness ==
    /\ bld.done
    /\ bld.cmd = HCI_CMD_MARVELL_WRITE_PCM_SETTINGS
    /\ Len(bld.payload) = MaxPayloadLen
    /\ Len(bld.out) = 1
    /\ bld.out[1].data[1] = 7 /\ bld.out[1].data[2] = 252

\* C11: whenever build_cmd_buf returns NULL in a call (a trigger or an SCO
\* continuation, table registered), that call hands nothing to the transport,
\* releases no command buffer, invokes the pipeline's result callback with FAIL
\* exactly once, is the last call of its run, and leaves the run with no
\* command outstanding.
C11_NoBufferFails ==
    \A r \in RunIds : \A i \in CallIds(r) :
        LET c == CallAt(r, i)
        IN  c.nobuf
            => /\ c.xmit = <<>>
               /\ Count("cmd", c.freed) = 0
               /\ c.results = << Result(ResultCb(runs[r].pipe), "FAIL") >>
               /\ i = Len(runs[r].calls)
               /\ PendingOf(r) = {}

C11_Witness ==
    \E r1 \in RunIds, r2 \in RunIds :
        /\ runs[r1].pipe = "fw" /\ Len(runs[r1].calls) = 1
        /\ CallAt(r1, 1).nobuf
        /\ CallAt(r1, 1).results = << Result("fwcfg_cb", "FAIL") >>
        /\ runs[r2].pipe = "sco" /\ Len(runs[r2].calls) = 3
        /\ CallAt(r2, 3).nobuf
        /\ CallAt(r2, 3).evt = HCI_CMD_MARVELL_WRITE_PCM_SYNC_SETTINGS
        /\ CallAt(r2, 3).freed = <<"evt">>
        /\ CallAt(r2, 3).results = << Result("scocfg_cb", "FAIL") >>

\* What a call does when its run executes alone, from the globals as loaded
\* and the address registered at the trigger, with the call's own inputs (the
\* event's opcode, the allocator's and xmit_cb's answers).
SoloEffect(c) ==
    LET allocOK == ~c.nobuf
        xmitOK == \E j \in 1..Len(c.xmit) : c.xmit[j].ok
    IN  CASE c.op = "hw_mrvl_config_start" ->
               hw_mrvl_config_start_body(CBACKS,
                   populate_bd_addr_params(write_bd_address_init, c.addr), allocOK, xmitOK)
          [] c.op = "hw_mrvl_sco_config" ->
               hw_mrvl_sco_config_body(CBACKS, allocOK, xmitOK)
          [] c.op = "hw_mrvl_config_start_cb" ->
               hw_mrvl_config_start_cb_body(CBACKS, EventBuffer(c.evt, 0))
          [] c.op = "hw_mrvl_sco_config_cb" ->
               hw_mrvl_sco_config_cb_body(CBACKS, EventBuffer(c.evt, 0), allocOK, xmitOK)

SameEffect(c, eff) ==
    /\ c.nobuf = eff.nobuf /\ c.xmit = eff.xmit
    /\ c.freed = eff.freed /\ c.results = eff.results

AcceptedBy(c) == { j \in 1..Len(c.xmit) : c.xmit[j].ok }

\* run r is a history of a run of its pipeline executing alone
IsSoloRun(r) ==
    LET n == Len(runs[r].calls)
    IN  /\ n >= 1
        /\ CallAt(r, 1).op = IF runs[r].pipe = "fw" THEN "hw_mrvl_config_start"
                                                  ELSE "hw_mrvl_sco_config"
        /\ \A i \in 1..n : ~CallAt(r, i).crash /\ SameEffect(CallAt(r, i), SoloEffect(CallAt(r, i)))
        /\ \A i \in 1..(n - 1) :
              /\ AcceptedBy(CallAt(r, i)) = {1}
              /\ CallAt(r, i + 1).op = CallAt(r, i).xmit[1].cb
              /\ CallAt(r, i + 1).expect = CallAt(r, i).xmit[1].cmd
        /\ { p.cmd : p \in PendingOf(r) } =
              { CallAt(r, n).xmit[j].cmd : j \in AcceptedBy(CallAt(r, n)) }
        /\ Cardinality(PendingOf(r)) <= 1
        /\ runs[r].results = CallAt(r, n).results
        /\ Len(runs[r].results) = IF PendingOf(r) = {} THEN 1 ELSE 0
        /\ \A j \in 1..Len(runs[r].results) :
              runs[r].results[j].cb = ResultCb(runs[r].pipe)

\* C12: when a pipeline is triggered only after the earlier runs have ended,
\* every run - a second run of the same pipeline included, whatever the first
\* run reported - sends the commands and reports the one outcome that the same
\* run sends and reports when it executes alone with the same inputs.
C12_SequentialRunsIndependent == \A r \in RunIds : IsSoloRun(r)

\* a firmware run that reported FAIL, then a second one for another address
\* that sent its command and reported SUCCESS
C12_Witness ==
    /\ Len(runs) = 2 /\ pending = {}
    /\ runs[1].pipe = "fw" /\ runs[1].results = << Result("fwcfg_cb", "FAIL") >>
    /\ Len(runs[1].calls) = 2
    /\ runs[2].pipe = "fw" /\ runs[2].results = << Result("fwcfg_cb", "SUCCESS") >>
    /\ Len(runs[2].calls) = 2
    /\ CallAt(1, 1).addr # CallAt(2, 1).addr
    /\ IsSoloRun(2)

\* the calls of run r are calls of pipeline functions ops, send only commands
\* of cmds with completion callback ccb, and invoke only result callback rcb
OnlyPipeline(r, ops, cmds, ccb, rcb) ==
    \A i \in CallIds(r) :
        LET c == CallAt(r, i)
        IN  /\ c.op \in ops
            /\ \A j \in 1..Len(c.xmit) : c.xmit[j].cmd \in cmds /\ c.xmit[j].cb = ccb
            /\ \A j \in 1..Len(c.results) : c.results[j].cb = rcb

\* C13: when a firmware run and an SCO run coexist, in whatever order their
\* calls interleave, the firmware run sends only write-BD-address and invokes
\* only fwcfg_cb, the SCO run sends only the four SCO commands and invokes only
\* scocfg_cb, and each run's calls, commands and outcome are those of the same
\* run executing alone with the same completion events.
C13_PipelinesIndependent ==
    \A f \in RunIds, k \in RunIds :
        (runs[f].pipe = "fw" /\ runs[k].pipe = "sco")
        => /\ OnlyPipeline(f, {"hw_mrvl_config_start", "hw_mrvl_config_start_cb"},
                           {HCI_CMD_MARVELL_WRITE_BD_ADDRESS},
                           "hw_mrvl_config_start_cb", "fwcfg_cb")
           /\ OnlyPipeline(k, {"hw_mrvl_sco_config", "hw_mrvl_sco_config_cb"},
                           ScoOpcodes, "hw_mrvl_sco_config_cb", "scocfg_cb")
           /\ IsSoloRun(f) /\ IsSoloRun(k)
           /\ \A p \in PendingOf(f) : p.cb = "hw_mrvl_config_start_cb"
           /\ \A p \in PendingOf(k) : p.cb = "hw_mrvl_sco_config_cb"

\* a firmware run started and ended while the SCO run, started before it, was
\* in progress: the SCO run, two completions on, still has a command outstanding
C13_Witness ==
    /\ Len(runs) = 2
    /\ runs[1].pipe = "sco" /\ Len(runs[1].calls) = 3 /\ PendingOf(1) # {}
    /\ runs[2].pipe = "fw" /\ Len(runs[2].calls) = 2
    /\ runs[2].results = << Result("fwcfg_cb", "SUCCESS") >>
    /\ CallAt(1, 3).xmit[1].cmd = HCI_CMD_MARVELL_WRITE_PCM_LINK_SETTINGS

\* payload size the wire format fixes for each opcode (0: not a command of
\* either pipeline)
WireSize(cmd) ==
    CASE cmd = 64519 -> 1     \* write-PCM-settings
      [] cmd = 64552 -> 3     \* write-PCM-sync-settings
      [] cmd = 64553 -> 2     \* write-PCM-link-settings
      [] cmd = 64541 -> 1     \* set-SCO-data-path
      [] cmd = 64546 -> 8     \* write-BD-address
      [] OTHER -> 0

\* C14: every command handed to xmit_cb, by a trigger or a continuation of
\* either pipeline, has the payload size of its opcode (1, 3, 2, 1, 8 bytes) in
\* its length byte, in the number of payload bytes and in the header's len
\* (size + 3), and the opcode passed to xmit_cb is the opcode encoded, low byte
\* first, in the first two bytes of the buffer.
C14_PayloadSizes ==
    \A r \in RunIds : \A i \in CallIds(r) :
        \A j \in 1..Len(CallAt(r, i).xmit) :
            LET x == CallAt(r, i).xmit[j]
            IN  /\ WireSize(x.cmd) > 0
                /\ x.buf.data[3] = WireSize(x.cmd)
                /\ Len(x.buf.data) = 3 + WireSize(x.cmd)
                /\ x.buf.len = 3 + WireSize(x.cmd)
                /\ x.buf.data[1] + 256 * x.buf.data[2] = x.cmd

\* all five commands were sent: an SCO run up to set-SCO-data-path and a
\* firmware run
C14_Witness ==
    \E f \in RunIds, k \in RunIds :
        /\ runs[f].pipe = "fw" /\ Len(CallAt(f, 1).xmit) = 1
        /\ Len(CallAt(f, 1).xmit[1].buf.data) = 11
        /\ runs[k].pipe = "sco" /\ Len(runs[k].calls) = 4
        /\ \A i \in 1..4 :
              /\ Len(CallAt(k, i).xmit) = 1
              /\ CallAt(k, i).xmit[1].cmd = ScoOrder[i]
        /\ Len(CallAt(k, 2).xmit[1].buf.data) = 6

\* C15: in every SCO run the commands handed to the transport, in order, are
\* a prefix of write-PCM-settings, write-PCM-sync-settings,
\* write-PCM-link-settings, set-SCO-data-path: the i-th call of the run sends
\* at most one command, and only the i-th of these four.
C15_SentIsPrefix ==
    \A r \in RunIds : runs[r].pipe = "sco" =>
        \A i \in CallIds(r) :
            /\ Len(CallAt(r, i).xmit) <= 1
            /\ Len(CallAt(r, i).xmit) = 1
                  => (i <= 4 /\ CallAt(r, i).xmit[1].cmd = ScoOrder[i])

\* C16: whenever a call of an SCO run invokes scocfg_cb(SUCCESS), it is the
\* fifth call of the run and the four calls before it sent write-PCM-settings,
\* write-PCM-sync-settings, write-PCM-link-settings and set-SCO-data-path, in
\* this order, each accepted by the transport.
C16_SuccessAfterAllFour ==
    \A r \in RunIds : \A i \in CallIds(r) :
        (\E j \in 1..Len(CallAt(r, i).results) :
              CallAt(r, i).results[j] = Result("scocfg_cb", "SUCCESS"))
        => /\ i = 5
           /\ \A k \in 1..4 :
                 /\ Len(CallAt(r, k).xmit) = 1
                 /\ CallAt(r, k).xmit[1].cmd = ScoOrder[k]
                 /\ CallAt(r, k).xmit[1].ok

\* C17: a completion callback applied to two events that carry the same
\* opcode and any two status bytes does the same in both cases: it hands the
\* same command to the transport, or reports the same outcome, and releases
\* the same buffers - in the firmware and in the SCO pipeline.
C17_StatusByteIgnored ==
    dec.done => /\ dec.out1.xmit = dec.out2.xmit
                /\ dec.out1.results = dec.out2.results
                /\ dec.out1.freed = dec.out2.freed
                /\ dec.out1.nobuf = dec.out2.nobuf

\* a success status and a failure status, both answered by the next command
C17_Witness ==
    /\ dec.done
    /\ dec.cb = "hw_mrvl_sco_config_cb"
    /\ dec.op = HCI_CMD_MARVELL_WRITE_PCM_SETTINGS
    /\ dec.st1 = 0 /\ dec.st2 = 255
    /\ Len(dec.out1.xmit) = 1 /\ Len(dec.out2.xmit) = 1
    /\ dec.out2.xmit[1].cmd = HCI_CMD_MARVELL_WRITE_PCM_SYNC_SETTINGS
    /\ dec.out2.xmit[1].ok

\* commands handed to the transport by the first n calls of run r
RECURSIVE HandedUpTo(_, _)
HandedUpTo(r, n) == IF n = 0 THEN 0 ELSE Len(CallAt(r, n).xmit) + HandedUpTo(r, n - 1)

\* C18: a firmware run hands at most one command to the transport over all
\* its calls, that command is write-BD-address (0xFC22) and is handed over by
\* the trigger; hw_mrvl_config_start_cb hands over none, whatever opcode its
\* event carries.
C18_FwRunSendsOnce ==
    \A r \in RunIds :
        /\ runs[r].pipe = "fw" =>
              /\ HandedUpTo(r, Len(runs[r].calls)) <= 1
              /\ \A i \in CallIds(r) : \A j \in 1..Len(CallAt(r, i).xmit) :
                    /\ CallAt(r, i).xmit[j].cmd = HCI_CMD_MARVELL_WRITE_BD_ADDRESS
                    /\ CallAt(r, i).op = "hw_mrvl_config_start"
              /\ \A p \in PendingOf(r) : p.cmd = HCI_CMD_MARVELL_WRITE_BD_ADDRESS
        /\ \A i \in CallIds(r) :
              CallAt(r, i).op = "hw_mrvl_config_start_cb" => CallAt(r, i).xmit = <<>>

\* the firmware callback received an opcode on which the SCO callback sends
\* the next command, and another that fails, and sent nothing in either case
C18_Witness ==
    \E r1 \in RunIds, r2 \in RunIds :
        /\ runs[r1].pipe = "fw" /\ Len(runs[r1].calls) = 2
        /\ CallAt(r1, 2).op = "hw_mrvl_config_start_cb"
        /\ CallAt(r1, 2).evt = HCI_CMD_MARVELL_WRITE_PCM_SETTINGS
        /\ CallAt(r1, 2).xmit = <<>>
        /\ HandedUpTo(r1, 2) = 1
        /\ runs[r2].pipe = "fw" /\ Len(runs[r2].calls) = 2
        /\ CallAt(r2, 2).evt = 3075
        /\ CallAt(r2, 2).xmit = <<>>

\* C19: a BT_VND_OP_USERIAL_OPEN call makes at most 20 attempts to open the
\* device and none after one succeeded; when it has returned 1, its last
\* attempt succeeded and param[0] holds the non-negative descriptor; when it
\* has returned -1, it made 20 attempts, all failed, and param[0] is negative;
\* it returns nothing else.
C19_UserialOpenRetries ==
    /\ userial.attempts <= 20
    /\ userial.attempts - userial.fails \in {0, 1}
    /\ (userial.pc = "loop" /\ userial.attempts > 0) => userial.attempts = userial.fails
    /\ userial.pc = "returned" =>
          /\ userial.ret \in {1, -1}
          /\ userial.ret = 1 =>
                /\ userial.attempts = userial.fails + 1
                /\ userial.param0 >= 0 /\ userial.param0 = mchar_fd
          /\ userial.ret = -1 =>
                /\ userial.attempts = 20 /\ userial.fails = 20
                /\ userial.param0 < 0 /\ userial.param0 = mchar_fd
          /\ (userial.attempts > userial.fails) => userial.ret = 1
          /\ (userial.fails = 20) => userial.ret = -1

\* the twentieth attempt failed and the call returned -1 with -1 in param[0]
C19_Witness ==
    /\ userial.pc = "returned"
    /\ userial.ret = -1
    /\ userial.attempts = 20
    /\ userial.param0 = -1

====
